---------------------------- MODULE Spec2Model ----------------------------
(***************************************************************************)
(* Model of the WebSocket relay in src/src/index.ts: the client registry   *)
(* (clients), the connection handler, the close and pong handlers, the     *)
(* heartbeat interval, onClientMessage (forward / tiktok:scrape / echo)    *)
(* and the asynchronous scrape task.                                       *)
(*                                                                         *)
(* Strings that the code trims, lower-cases or uses as registry keys are   *)
(* sequences of one-character strings, so that the normalisation is        *)
(* computed and not assumed.  Message type tags are plain strings.         *)
(***************************************************************************)
EXTENDS Integers, Sequences, FiniteSets, Bags, TLC

(* ------------------------------ bounds --------------------------------- *)
\* number of WebSocket connections the server accepts in one run
MaxConns == 2
\* number of scrape tasks that may be in flight at once
MaxJobs == 2

Conns == 1..MaxConns
\* the undefined that clients.get returns for a missing key
NoConn == 0

(* ----------------------------- close codes ----------------------------- *)
\* existing.close(1000, "Replaced by new connection")
NORMAL_CLOSURE == 1000
\* ws.close(1008, "Missing id"); // Policy Violation
POLICY_VIOLATION == 1008

(* ------------------------------ strings -------------------------------- *)
SERVER == <<"s", "e", "r", "v", "e", "r">>
\* const TV_ID = (process.env.TV_ID || "tv").trim().toLowerCase()
TV_ID == <<"t", "v">>
\* String(payload?.username ?? "freekadelle_")
DEFAULT_USERNAME == <<"f", "r", "e", "e", "k", "a", "d", "e", "l", "l", "e", "_">>

\* String.prototype.toLowerCase, one character
LowerChar(ch) ==
    CASE ch = "A" -> "a"
      [] ch = "T" -> "t"
      [] ch = "V" -> "v"
      [] OTHER -> ch

\* String.prototype.toLowerCase
toLowerCase(s) == [i \in 1..Len(s) |-> LowerChar(s[i])]

RECURSIVE TrimStart(_)
TrimStart(s) ==
    IF s # <<>> /\ Head(s) = " " THEN TrimStart(Tail(s)) ELSE s

RECURSIVE TrimEnd(_)
TrimEnd(s) ==
    IF s # <<>> /\ s[Len(s)] = " " THEN TrimEnd(SubSeq(s, 1, Len(s) - 1)) ELSE s

\* String.prototype.trim
trim(s) == TrimEnd(TrimStart(s))

(* ---------------------------- JSON values ------------------------------ *)
\* a field that is not there (undefined)
Absent == [k |-> "absent"]
\* a string-valued field
Str(s) == [k |-> "str", v |-> s]
\* a number-valued field (truthy, non-string)
Num == [k |-> "num"]

IsString(x) == x.k = "str"
\* JavaScript truthiness of a field value
Truthy(x) == (x.k = "str" /\ x.v # <<>>) \/ x.k = "num"
\* JSON null
NullV == [k |-> "null"]

(* ------------------------------- state --------------------------------- *)
VARIABLES
    nconn,        \* connections accepted so far; the next one is nconn + 1
    cid,          \* per connection: the id captured by its handlers (<<>>: refused)
    readyState,   \* per connection: "none", "open", "closing", "closed"
    closeReason,  \* per connection: why it is closing ("" when not closing)
    closeCode,    \* per connection: the code the server gave to ws.close (0: none)
    clients,      \* const clients = new Map<string, WebSocket>()
    isAlive,      \* per connection: (ws as any).isAlive
    jobs,         \* scrape tasks in flight: a bag of their closures
    ev,           \* the event handled by the last step
    out,          \* the envelopes the last step sent, in order
    silentTicks,  \* per connection: heartbeat ticks met as holder since its last
                  \* pong or handshake (0 again once its socket has closed)
    answered      \* per connection: it has answered the probe of the last tick

vars == <<nconn, cid, readyState, closeReason, closeCode, clients, isAlive, jobs,
          ev, out, silentTicks, answered>>

(* ------------------------------ inputs --------------------------------- *)
\* ?id=... of the upgrade request: missing, blank, or spelled in several ways
RawIds ==
    { Absent, Str(<<" ">>), Str(<<"a">>), Str(<<"A", " ">>),
      Str(<<"t", "v">>), Str(<<" ", "T", "V">>) }

\* the payload of a frame that carries one
PAYLOAD == [k |-> "obj", username |-> Str(<<" ", "b">>)]

\* object frames with a client-supplied `from` (the id of another client) and a
\* payload: no `to`, an empty `to`, the receiver's id, an id that differs from it
\* by letter case; no type, an ordinary type, the job-dispatch type
ObjectFrames ==
    { [k |-> "object", from |-> Str(TV_ID), to |-> t, type |-> ty,
       payload |-> PAYLOAD] :
        t \in {Absent, Str(<<>>), Str(TV_ID), Str(<<"T", "V">>)},
        ty \in {Absent, Str("chat"), Str("tiktok:scrape")} }

\* object frames without `from` and `payload`; the type may be a number
BareFrames ==
    { [k |-> "object", from |-> Absent, to |-> t, type |-> ty, payload |-> Absent] :
        t \in {Absent, Str(TV_ID)},
        ty \in {Num, Str("chat"), Str("tiktok:scrape")} }

\* frames that are not JSON, or JSON that is no object with fields
OtherFrames ==
    { [k |-> "notjson"], [k |-> "scalar"], [k |-> "null"], [k |-> "array"] }

Frames == ObjectFrames \cup BareFrames \cup OtherFrames

\* what scrapeTikTokStats settles with
Outcomes ==
    { [ok |-> TRUE, followers |-> Num],
      [ok |-> TRUE, followers |-> NullV],
      [ok |-> FALSE, message |-> "scrape failed"] }

(* ----------------------------- primitives ------------------------------ *)
\* clients.get(key): a key that is no string never matches
clientsGet(key) ==
    IF key.k = "str" /\ key.v \in DOMAIN clients THEN clients[key.v] ELSE NoConn

\* ws.send(JSON.stringify(env)): the frame leaves only on an open socket
wsSend(ws, env) ==
    << [conn |-> ws, env |-> env, delivered |-> (readyState[ws] = "open")] >>

\* { from: "server", type, payload, ts } written inline in the handlers
ServerEnv(type, payload) ==
    [from |-> SERVER, to |-> Absent, type |-> Str(type), payload |-> payload]

\* mutant: sendTo looks the id up but does not test readyState
sendToDelivered_NoStateCheck(id) == clientsGet(id) # NoConn

\* sendTo: the guard of line 74
sendToDelivered(id) ==
    clientsGet(id) # NoConn /\ readyState[clientsGet(id)] = "open"

\* mutant: sendTo ignores message.from
sendToFrom_AlwaysServer(from) == SERVER

\* sendTo: message.from ?? "server"
sendToFrom(from) == IF from = Absent THEN SERVER ELSE from.v

\* sendTo: the envelope built and sent on the target's socket
sendTo(id, from, type, payload) ==
    IF ~sendToDelivered(id) THEN <<>>
    ELSE wsSend(clientsGet(id),
                [from |-> sendToFrom(from), to |-> id, type |-> type,
                 payload |-> payload])

(* --------------------------- wss.on("connection") ---------------------- *)
\* mutant: the id is lower-cased but not trimmed
QueryId_NoTrim(raw) == IF raw.k = "str" THEN toLowerCase(raw.v) ELSE <<>>

\* typeof query?.id === "string" ? query.id.trim().toLowerCase() : undefined
\* (undefined and "" are both falsy: both are <<>> here)
QueryId(raw) == IF raw.k = "str" THEN toLowerCase(trim(raw.v)) ELSE <<>>

\* mutant: the old holder is left open when its id is registered again
ExistingToClose_NotClosed(id, ws) == {}

\* the connections that `existing.close(1000, "Replaced by new connection")` closes
ExistingToClose(id, ws) ==
    IF id \in DOMAIN clients /\ clients[id] # ws THEN {clients[id]} ELSE {}

\* clients.set(id, ws)
clientsSet(id, ws) ==
    [x \in DOMAIN clients \cup {id} |-> IF x = id THEN ws ELSE clients[x]]

\* clients.delete(id) for every id of the set
clientsDelete(ids) == [x \in DOMAIN clients \ ids |-> clients[x]]

\* ws.terminate() on the sockets of cs (no close code is given): an open socket
\* starts closing; one that is closing or closed already keeps its state
BeginClose(cs, reason) ==
    /\ readyState' = [c \in Conns |->
          IF c \in cs /\ readyState[c] = "open" THEN "closing" ELSE readyState[c]]
    /\ closeReason' = [c \in Conns |->
          IF c \in cs /\ readyState[c] = "open" THEN reason ELSE closeReason[c]]

\* no id: one error frame, close(1008, "Missing id"), no handler attached
Refuse(ws) ==
    /\ out' = << [conn |-> ws,
                  env |-> ServerEnv("error",
                                    [message |-> "Missing id in query string"]),
                  delivered |-> TRUE] >>
    /\ readyState' = [readyState EXCEPT ![ws] = "closing"]
    /\ closeReason' = [closeReason EXCEPT ![ws] = "Missing id"]
    /\ closeCode' = [closeCode EXCEPT ![ws] = POLICY_VIOLATION]
    /\ UNCHANGED <<cid, clients, isAlive, silentTicks, answered>>

\* a valid id: replace the holder, register, isAlive = true, attach the handlers
Accept(ws, id) ==
    /\ out' = <<>>
    /\ readyState' = [c \in Conns |->
          IF c = ws THEN "open"
          ELSE IF c \in ExistingToClose(id, ws) /\ readyState[c] = "open"
               THEN "closing" ELSE readyState[c]]
    /\ closeReason' = [c \in Conns |->
          IF c \in ExistingToClose(id, ws) /\ readyState[c] = "open"
          THEN "Replaced by new connection" ELSE closeReason[c]]
    /\ closeCode' = [c \in Conns |->
          IF c \in ExistingToClose(id, ws) /\ readyState[c] = "open"
          THEN NORMAL_CLOSURE ELSE closeCode[c]]
    /\ clients' = clientsSet(id, ws)
    /\ cid' = [cid EXCEPT ![ws] = id]
    /\ isAlive' = [isAlive EXCEPT ![ws] = TRUE]
    /\ silentTicks' = [silentTicks EXCEPT ![ws] = 0]
    /\ answered' = [answered EXCEPT ![ws] = FALSE]

Connection(raw) ==
    /\ nconn < MaxConns
    /\ nconn' = nconn + 1
    /\ ev' = [kind |-> "connection", conn |-> nconn + 1, raw |-> raw]
    /\ IF QueryId(raw) = <<>> THEN Refuse(nconn + 1)
                              ELSE Accept(nconn + 1, QueryId(raw))
    /\ UNCHANGED jobs

(* ------------------------------ ws.on("close") ------------------------- *)
\* mutant: the close listener deletes its id without looking at the holder
closeHandler_Unguarded(ws) == clientsDelete({cid[ws]})

\* const current = clients.get(id); if (current === ws) clients.delete(id)
closeHandler(ws) ==
    IF clientsGet(Str(cid[ws])) = ws THEN clientsDelete({cid[ws]}) ELSE clients

\* mutant: the close listener drops the tasks its connection asked for
OnClose_CancelsJobs(ws) ==
    /\ readyState[ws] \in {"open", "closing"}
    /\ readyState' = [readyState EXCEPT ![ws] = "closed"]
    /\ closeReason' = [closeReason EXCEPT ![ws] = ""]
    /\ closeCode' = [closeCode EXCEPT ![ws] = 0]
    /\ silentTicks' = [silentTicks EXCEPT ![ws] = 0]
    /\ answered' = [answered EXCEPT ![ws] = FALSE]
    /\ clients' = IF cid[ws] # <<>> THEN closeHandler(ws) ELSE clients
    /\ jobs' = [job \in {j \in DOMAIN jobs : j.ws # ws} |-> jobs[job]]
    /\ ev' = [kind |-> "close", conn |-> ws]
    /\ out' = <<>>
    /\ UNCHANGED <<nconn, cid, isAlive>>

\* the socket of ws is gone: readyState CLOSED, then the 'close' listeners run
OnClose(ws) ==
    /\ readyState[ws] \in {"open", "closing"}
    /\ readyState' = [readyState EXCEPT ![ws] = "closed"]
    /\ closeReason' = [closeReason EXCEPT ![ws] = ""]
    /\ closeCode' = [closeCode EXCEPT ![ws] = 0]
    /\ silentTicks' = [silentTicks EXCEPT ![ws] = 0]
    /\ answered' = [answered EXCEPT ![ws] = FALSE]
    /\ clients' = IF cid[ws] # <<>> THEN closeHandler(ws) ELSE clients
    /\ ev' = [kind |-> "close", conn |-> ws]
    /\ out' = <<>>
    /\ UNCHANGED <<nconn, cid, isAlive, jobs>>

\* the peer starts the closing handshake, or the link fails: the socket stops being
\* OPEN some time before its 'close' event is emitted
PeerClosing(ws) ==
    /\ readyState[ws] = "open"
    /\ cid[ws] # <<>>
    /\ readyState' = [readyState EXCEPT ![ws] = "closing"]
    /\ closeReason' = [closeReason EXCEPT ![ws] = "peer"]
    /\ ev' = [kind |-> "peerclosing", conn |-> ws]
    /\ out' = <<>>
    /\ UNCHANGED <<nconn, cid, closeCode, clients, isAlive, jobs, silentTicks, answered>>

(* ------------------------------ ws.on("pong") -------------------------- *)
\* mutant: the pong listener does not set the flag
pongHandler_Ignored(ws) == isAlive

\* ws.on("pong", () => ((ws as any).isAlive = true))
pongHandler(ws) == [isAlive EXCEPT ![ws] = TRUE]

\* a pong frame of the peer arrives
OnPong(ws) ==
    /\ cid[ws] # <<>>
    /\ readyState[ws] = "open"
    /\ isAlive' = pongHandler(ws)
    /\ silentTicks' = [silentTicks EXCEPT ![ws] = 0]
    /\ answered' = [answered EXCEPT ![ws] = @ \/ silentTicks[ws] > 0]
    /\ ev' = [kind |-> "pong", conn |-> ws]
    /\ out' = <<>>
    /\ UNCHANGED <<nconn, cid, readyState, closeReason, closeCode, clients, jobs>>

(* --------------------------- heartbeat interval ------------------------ *)
\* mutant: the tick never finds a dead connection
heartbeatDead_None == {}

\* if (alive === false): the ids whose holder is terminated and deleted
heartbeatDead ==
    {id \in DOMAIN clients : isAlive[clients[id]] = FALSE}

\* the connections the tick probes: isAlive = false; ws.ping()
heartbeatProbed ==
    {clients[id] : id \in DOMAIN clients \ heartbeatDead}

\* one run of the setInterval callback over the whole registry
Heartbeat ==
    /\ DOMAIN clients # {}
    /\ BeginClose({clients[id] : id \in heartbeatDead}, "terminate")
    /\ clients' = clientsDelete(heartbeatDead)
    /\ isAlive' = [c \in Conns |-> IF c \in heartbeatProbed THEN FALSE ELSE isAlive[c]]
    /\ silentTicks' = [c \in Conns |->
          IF c \in {clients[id] : id \in DOMAIN clients}
          THEN silentTicks[c] + 1 ELSE silentTicks[c]]
    /\ answered' = [c \in Conns |-> FALSE]
    /\ ev' = [kind |-> "tick", conn |-> NoConn,
              answered |-> {c \in Conns : answered[c]}]
    /\ out' = <<>>
    /\ UNCHANGED <<nconn, cid, closeCode, jobs>>

(* ---------------------------- onClientMessage -------------------------- *)
\* JSON.parse(text) throws
parseThrows(frame) == frame.k = "notjson"

\* typeof parsed !== "object" || parsed === null   (an array is an object)
notAnObject(frame) == frame.k \in {"scalar", "null"}

\* a field of the parsed value; an array has none of the envelope's fields
Field(frame, name) ==
    IF frame.k = "object" THEN frame[name] ELSE Absent

\* mutant: the client's own `from` is kept
stampFrom_Skipped(frame, id) ==
    IF frame.k = "object" THEN frame ELSE [k |-> "array", from |-> Absent]

\* (msg as any).from = id
stampFrom(frame, id) ==
    IF frame.k = "object" THEN [frame EXCEPT !.from = Str(id)]
    ELSE [k |-> "array", from |-> Str(id)]

\* mutant: the gate only asks whether `type` is there
missingType_OnlyAbsent(msg) == Field(msg, "type") = Absent

\* !(typeof (msg as any).type === "string")
missingType(msg) == ~IsString(Field(msg, "type"))

\* String((msg as any).payload?.username ?? "freekadelle_").trim()
jobUsername(msg) ==
    LET p == Field(msg, "payload")
        u == IF p.k = "obj" THEN p.username ELSE Absent
    IN  trim(IF u.k = "str" THEN u.v ELSE DEFAULT_USERNAME)

\* mutant: the forwarded envelope loses the payload
forwardBranch_NoPayload(id, ws, msg) ==
    sendTo(msg.to, Str(id), msg.type, Absent)
    \o (IF ~sendToDelivered(msg.to)
        THEN wsSend(ws, ServerEnv("error",
                 [message |-> "Target not connected", target |-> msg.to]))
        ELSE wsSend(ws, ServerEnv("ack", [to |-> msg.to, type |-> msg.type])))

\* the direct-forward branch: sendTo, then the error or the ack on ws
forwardBranch(id, ws, msg) ==
    sendTo(msg.to, Str(id), msg.type, msg.payload)
    \o (IF ~sendToDelivered(msg.to)
        THEN wsSend(ws, ServerEnv("error",
                 [message |-> "Target not connected", target |-> msg.to]))
        ELSE wsSend(ws, ServerEnv("ack", [to |-> msg.to, type |-> msg.type])))

\* mutant: the ack is left to the task
jobAck_Deferred(ws, msg) == <<>>

\* the immediate ack of the tiktok:scrape branch
jobAck(ws, msg) ==
    wsSend(ws, ServerEnv("ack",
        [started |-> TRUE, cmd |-> "tiktok:scrape", username |-> jobUsername(msg)]))

\* the final echo
echoBranch(ws, msg) == wsSend(ws, ServerEnv("echo", msg))

\* mutant: the job-dispatch type starts a task whatever `to` says
startsJob_IgnoresTo(frame) ==
    /\ ~parseThrows(frame) /\ ~notAnObject(frame)
    /\ ~missingType(frame)
    /\ Field(frame, "type") = Str("tiktok:scrape")

\* the frame starts a scrape task
startsJob(frame) ==
    /\ ~parseThrows(frame) /\ ~notAnObject(frame)
    /\ ~missingType(frame)
    /\ ~Truthy(Field(frame, "to"))
    /\ Field(frame, "type") = Str("tiktok:scrape")

\* the envelopes one call of onClientMessage(id, ws, data) sends, in order
onClientMessage(id, ws, frame) ==
    IF parseThrows(frame)
    THEN wsSend(ws, ServerEnv("error", [message |-> "Invalid JSON"]))
    ELSE IF notAnObject(frame)
    THEN wsSend(ws, ServerEnv("error", [message |-> "Invalid message format"]))
    ELSE LET msg == stampFrom(frame, id) IN
         IF missingType(msg)
         THEN wsSend(ws, ServerEnv("error", [message |-> "Missing 'type'"]))
         ELSE IF Truthy(msg.to) THEN forwardBranch(id, ws, msg)
         ELSE IF msg.type = Str("tiktok:scrape") THEN jobAck(ws, msg)
         ELSE echoBranch(ws, msg)

\* the closure of the async task: its requester socket and username
newJob(ws, frame) ==
    [ws |-> ws, username |-> jobUsername(frame),
     tvAtStart |-> sendToDelivered(Str(TV_ID))]

\* frames reach the listener while the socket is open, and also between the
\* server's close() and the peer's answer to it
canReceive(ws) ==
    /\ cid[ws] # <<>>
    /\ \/ readyState[ws] = "open"
       \/ readyState[ws] = "closing" /\ closeReason[ws] = "Replaced by new connection"

\* mutant: any frame of a client counts as a sign of life
OnMessage_MarksAlive(ws, frame) ==
    /\ canReceive(ws)
    /\ startsJob(frame) => BagCardinality(jobs) < MaxJobs
    /\ out' = onClientMessage(cid[ws], ws, frame)
    /\ jobs' = IF startsJob(frame) THEN jobs (+) SetToBag({newJob(ws, frame)})
                                   ELSE jobs
    /\ ev' = [kind |-> "message", conn |-> ws, frame |-> frame]
    /\ isAlive' = [isAlive EXCEPT ![ws] = TRUE]
    /\ UNCHANGED <<nconn, cid, readyState, closeReason, closeCode, clients,
                   silentTicks, answered>>

\* mutant: a username that is already being scraped is not scraped again
OnMessage_SingleFlight(ws, frame) ==
    /\ canReceive(ws)
    /\ startsJob(frame) => BagCardinality(jobs) < MaxJobs
    /\ out' = onClientMessage(cid[ws], ws, frame)
    /\ jobs' = IF /\ startsJob(frame)
                  /\ \A job \in BagToSet(jobs) : job.username # jobUsername(frame)
               THEN jobs (+) SetToBag({newJob(ws, frame)})
               ELSE jobs
    /\ ev' = [kind |-> "message", conn |-> ws, frame |-> frame]
    /\ UNCHANGED <<nconn, cid, readyState, closeReason, closeCode, clients, isAlive,
                   silentTicks, answered>>

\* mutant: the handler waits for the scrape, so no frame is handled meanwhile
OnMessage_BlockedByJob(ws, frame) ==
    /\ canReceive(ws)
    /\ jobs = EmptyBag
    /\ out' = onClientMessage(cid[ws], ws, frame)
    /\ jobs' = IF startsJob(frame) THEN jobs (+) SetToBag({newJob(ws, frame)})
                                   ELSE jobs
    /\ ev' = [kind |-> "message", conn |-> ws, frame |-> frame]
    /\ UNCHANGED <<nconn, cid, readyState, closeReason, closeCode, clients, isAlive,
                   silentTicks, answered>>

\* ws.on("message", (data) => onClientMessage(id, ws, data))
OnMessage(ws, frame) ==
    /\ canReceive(ws)
    /\ startsJob(frame) => BagCardinality(jobs) < MaxJobs
    /\ out' = onClientMessage(cid[ws], ws, frame)
    /\ jobs' = IF startsJob(frame) THEN jobs (+) SetToBag({newJob(ws, frame)})
                                   ELSE jobs
    /\ ev' = [kind |-> "message", conn |-> ws, frame |-> frame]
    /\ UNCHANGED <<nconn, cid, readyState, closeReason, closeCode, clients, isAlive,
                   silentTicks, answered>>

(* --------------------------- the scrape task --------------------------- *)
\* mutant: done always reports the result as delivered
jobSuccess_AlwaysDelivered(job, followers) ==
    sendTo(Str(TV_ID), Absent, Str("tiktok:followers"),
           [username |-> job.username, followers |-> followers])
    \o wsSend(job.ws, ServerEnv("tiktok:scrape:done",
           [username |-> job.username, followers |-> followers,
            deliveredToTv |-> TRUE]))
    \o (IF ~sendToDelivered(Str(TV_ID))
        THEN wsSend(job.ws, ServerEnv("warn",
                 [message |-> "TV client not connected", tv |-> TV_ID,
                  username |-> job.username]))
        ELSE <<>>)

\* mutant: the done is sent to whoever holds the requester's id at completion
jobSuccess_DoneByLookup(job, followers) ==
    sendTo(Str(TV_ID), Absent, Str("tiktok:followers"),
           [username |-> job.username, followers |-> followers])
    \o (IF clientsGet(Str(cid[job.ws])) # NoConn
        THEN wsSend(clientsGet(Str(cid[job.ws])), ServerEnv("tiktok:scrape:done",
                 [username |-> job.username, followers |-> followers,
                  deliveredToTv |-> sendToDelivered(Str(TV_ID))]))
        ELSE <<>>)
    \o (IF ~sendToDelivered(Str(TV_ID))
        THEN wsSend(job.ws, ServerEnv("warn",
                 [message |-> "TV client not connected", tv |-> TV_ID,
                  username |-> job.username]))
        ELSE <<>>)

\* the task after `await scrapeTikTokStats(username)` resolved
jobSuccess(job, followers) ==
    sendTo(Str(TV_ID), Absent, Str("tiktok:followers"),
           [username |-> job.username, followers |-> followers])
    \o wsSend(job.ws, ServerEnv("tiktok:scrape:done",
           [username |-> job.username, followers |-> followers,
            deliveredToTv |-> sendToDelivered(Str(TV_ID))]))
    \o (IF ~sendToDelivered(Str(TV_ID))
        THEN wsSend(job.ws, ServerEnv("warn",
                 [message |-> "TV client not connected", tv |-> TV_ID,
                  username |-> job.username]))
        ELSE <<>>)

\* mutant: the receiver is told of the failure without the username
jobFailure_BareNotice(job, message) ==
    wsSend(job.ws, ServerEnv("tiktok:scrape:error",
           [username |-> job.username, message |-> message]))
    \o sendTo(Str(TV_ID), Absent, Str("tiktok:followers:error"),
           [message |-> message])

\* mutant: the catch block tells the requester only
jobFailure_RequesterOnly(job, message) ==
    wsSend(job.ws, ServerEnv("tiktok:scrape:error",
           [username |-> job.username, message |-> message]))

\* the catch block of the task
jobFailure(job, message) ==
    wsSend(job.ws, ServerEnv("tiktok:scrape:error",
           [username |-> job.username, message |-> message]))
    \o sendTo(Str(TV_ID), Absent, Str("tiktok:followers:error"),
           [username |-> job.username, message |-> message])

\* mutant: a throw after the success path's sends lands in the catch block
jobSettle_ErrorAfterDone(job, outcome) ==
    IF outcome.ok
    THEN jobSuccess(job, outcome.followers) \o jobFailure(job, "scrape failed")
    ELSE jobFailure(job, outcome.message)

\* the envelopes the task sends once the external operation has settled
jobSettle(job, outcome) ==
    IF outcome.ok THEN jobSuccess(job, outcome.followers)
                  ELSE jobFailure(job, outcome.message)

\* scrapeTikTokStats(username) of one task in flight resolves or rejects
Settle(job, outcome) ==
    /\ BagIn(job, jobs)
    /\ out' = jobSettle(job, outcome)
    /\ jobs' = jobs (-) SetToBag({job})
    /\ ev' = [kind |-> "settle", conn |-> job.ws, job |-> job, outcome |-> outcome]
    /\ UNCHANGED <<nconn, cid, readyState, closeReason, closeCode, clients, isAlive,
                   silentTicks, answered>>

(* ---------------------------- specification ---------------------------- *)
Init ==
    /\ nconn = 0
    /\ cid = [c \in Conns |-> <<>>]
    /\ readyState = [c \in Conns |-> "none"]
    /\ closeReason = [c \in Conns |-> ""]
    /\ closeCode = [c \in Conns |-> 0]
    /\ clients = [x \in {} |-> NoConn]
    /\ isAlive = [c \in Conns |-> TRUE]
    /\ jobs = EmptyBag
    /\ ev = [kind |-> "init", conn |-> NoConn]
    /\ out = <<>>
    /\ silentTicks = [c \in Conns |-> 0]
    /\ answered = [c \in Conns |-> FALSE]

\* the events that change the registry, the sockets and the liveness flags
NextRegistry ==
    \/ \E raw \in RawIds : Connection(raw)
    \/ \E ws \in Conns : OnClose(ws)
    \/ \E ws \in Conns : PeerClosing(ws)
    \/ \E ws \in Conns : OnPong(ws)
    \/ Heartbeat

\* a frame that starts no task arrives
NextFrame ==
    \E ws \in Conns, frame \in Frames : ~startsJob(frame) /\ OnMessage(ws, frame)

\* a frame that starts a task arrives, or a task in flight settles
NextJob ==
    \/ \E ws \in Conns, frame \in Frames : startsJob(frame) /\ OnMessage(ws, frame)
    \/ \E job \in BagToSet(jobs), outcome \in Outcomes : Settle(job, outcome)

Next == NextRegistry \/ NextFrame \/ NextJob

\* the whole server
Spec == Init /\ [][Next]_vars

\* OnMessage and Settle leave nconn, cid, readyState, closeReason, closeCode, clients, isAlive,
\* silentTicks and answered unchanged, so the registry and the heartbeat are decided by
\* the registry events alone
SpecRegistry == Init /\ [][NextRegistry]_vars

\* frames that start no task leave jobs unchanged, and no handler reads jobs but
\* Settle: the routing of such frames is decided without the tasks
SpecRouter == Init /\ [][NextRegistry \/ NextFrame]_vars

\* registry events, frames that start a task, and the tasks
SpecJobs == Init /\ [][NextRegistry \/ NextJob]_vars

\* the closures a task can have
JobRecords ==
    [ws : Conns, username : {DEFAULT_USERNAME, <<"b">>}, tvAtStart : BOOLEAN]

\* scrapeTikTokStats settles every call: each task in flight resolves or rejects
\* in the end (the scraper's navigation and selector waits all carry timeouts)
FairJobs ==
    SpecJobs /\ \A job \in JobRecords : WF_vars(\E outcome \in Outcomes : Settle(job, outcome))

(* ------------------------------- claims -------------------------------- *)
\* the connection registered under id, or NoConn
Holder(id) == IF id \in DOMAIN clients THEN clients[id] ELSE NoConn

\* C1: when a handshake under id A succeeds while another connection holds A,
\* then in that same step the old holder stops being open (closed with the
\* "Replaced by new connection" reason if it was open) and the registry maps A to
\* the new connection; and in every state each registry entry is a connection
\* that shook hands under that very id, and every open connection with an id is
\* the holder of its id, so that no id has two live connections.
C1_ReplaceEvictsOld ==
    [][ /\ \A id \in DOMAIN clients :
              (id \in DOMAIN clients' /\ clients'[id] # clients[id]) =>
                  /\ ev'.kind = "connection" /\ clients'[id] = ev'.conn
                  /\ readyState'[clients[id]] # "open"
                  /\ readyState[clients[id]] = "open" =>
                        closeReason'[clients[id]] = "Replaced by new connection"
        /\ \A id \in DOMAIN clients' : cid'[clients'[id]] = id
        /\ \A c \in Conns :
              (readyState'[c] = "open" /\ cid'[c] # <<>>) =>
                  (cid'[c] \in DOMAIN clients' /\ clients'[cid'[c]] = c)
      ]_vars

\* C1 witness: the last event registered a connection under an id whose former
\* holder is now closing as replaced
C1_Witness ==
    /\ ev.kind = "connection"
    /\ Holder(cid[ev.conn]) = ev.conn
    /\ \E c \in Conns :
          /\ c # ev.conn /\ cid[c] = cid[ev.conn]
          /\ readyState[c] = "closing"
          /\ closeReason[c] = "Replaced by new connection"

\* C2: a registry entry (id -> c) disappears or changes only through an event of
\* c itself (its own close event, or a heartbeat tick that found c's flag false)
\* or through the handshake of the connection that takes its place; and a close
\* event of a connection that is not the holder of its id leaves the registry
\* as it was.
C2_StaleRemovalIsNoOp ==
    [][ /\ \A id \in DOMAIN clients :
              (id \notin DOMAIN clients' \/ clients'[id] # clients[id]) =>
                  \/ ev'.kind = "close" /\ ev'.conn = clients[id]
                  \/ ev'.kind = "tick" /\ isAlive[clients[id]] = FALSE
                  \/ /\ ev'.kind = "connection" /\ id \in DOMAIN clients'
                     /\ clients'[id] = ev'.conn
        /\ (ev'.kind = "close" /\ Holder(cid[ev'.conn]) # ev'.conn) =>
              clients' = clients
      ]_vars

\* C2 witness: the last event was the close of a connection that had been
\* superseded, and the newer connection with the same id is still registered
C2_Witness ==
    /\ ev.kind = "close"
    /\ cid[ev.conn] # <<>>
    /\ Holder(cid[ev.conn]) \notin {NoConn, ev.conn}
    /\ readyState[Holder(cid[ev.conn])] = "open"

\* the record of one send: the socket, the envelope, and whether it left
Sent(c, from, to, type, payload) ==
    [conn |-> c,
     env |-> [from |-> from, to |-> to, type |-> Str(type), payload |-> payload],
     delivered |-> (readyState[c] = "open")]

\* the last event was a frame that parsed to an object with a string `type`
WellFormedFrame ==
    ev.kind = "message" /\ ev.frame.k = "object" /\ ev.frame.type.k = "str"

\* ... and it names a destination
HasTo == ev.frame.to.k = "str" /\ ev.frame.to.v # <<>>

\* the destination is registered and its socket is open
TargetConnected ==
    Holder(ev.frame.to.v) # NoConn /\ readyState[Holder(ev.frame.to.v)] = "open"

\* C3: a frame with a string type and a non-empty `to` naming a registered, open
\* connection makes the router send exactly two envelopes: first the forward on
\* the target's socket (delivered, same type and payload, `to` the target id),
\* then one ack with payload {to, type} on the sender's socket.
C3_ForwardAndAck ==
    (WellFormedFrame /\ HasTo /\ TargetConnected) =>
        /\ Len(out) = 2
        /\ out[1].conn = Holder(ev.frame.to.v)
        /\ out[1].delivered
        /\ out[1].env.to = ev.frame.to
        /\ out[1].env.type = ev.frame.type
        /\ out[1].env.payload = ev.frame.payload
        /\ out[2] = Sent(ev.conn, SERVER, Absent, "ack",
                         [to |-> ev.frame.to, type |-> ev.frame.type])

\* C3 witness: a frame with a payload was forwarded from one open connection to
\* another one
C3_Witness ==
    /\ WellFormedFrame /\ HasTo /\ TargetConnected
    /\ Holder(ev.frame.to.v) # ev.conn
    /\ readyState[ev.conn] = "open"
    /\ ev.frame.payload # Absent
    /\ Len(out) = 2 /\ out[2].env.type = Str("ack")

\* C4: a frame with a string type and a non-empty `to` whose target is not in the
\* registry, or is there with a socket that is not open, makes the router send
\* exactly one envelope: an error naming the target, on the sender's socket.
C4_AbsentTargetError ==
    (WellFormedFrame /\ HasTo /\ ~TargetConnected) =>
        out = << Sent(ev.conn, SERVER, Absent, "error",
                      [message |-> "Target not connected",
                       target |-> ev.frame.to]) >>

\* C4 witness: the target id is registered but its socket is closing
C4_Witness ==
    /\ WellFormedFrame /\ HasTo
    /\ Holder(ev.frame.to.v) # NoConn
    /\ readyState[Holder(ev.frame.to.v)] = "closing"
    /\ Len(out) = 1 /\ out[1].env.type = Str("error")

\* C5: of the envelopes of one event, those sendTo wrote while a client frame was
\* handled (the forwards: they carry `to`) have `from` = the id the sending
\* connection registered under; every other envelope has `from` = "server".
C5_AuthoritativeFrom ==
    \A i \in 1..Len(out) :
        IF ev.kind = "message" /\ out[i].env.to # Absent
        THEN out[i].env.from = cid[ev.conn]
        ELSE out[i].env.from = SERVER

\* C5 witness: a forwarded frame in which the client had put another id as `from`
C5_Witness ==
    /\ WellFormedFrame /\ HasTo /\ TargetConnected
    /\ ev.frame.from.k = "str" /\ ev.frame.from.v # cid[ev.conn]
    /\ Len(out) = 2 /\ out[1].env.from = cid[ev.conn]

\* the last event was a well-formed frame without `to` and without the job tag
EchoFrame ==
    /\ WellFormedFrame
    /\ ev.frame.to = Absent \/ ev.frame.to = Str(<<>>)
    /\ ev.frame.type.v # "tiktok:scrape"

\* C6 as claimed: the echo's payload is the frame as the client sent it
C6_EchoVerbatim ==
    EchoFrame => out = << Sent(ev.conn, SERVER, Absent, "echo", ev.frame) >>

\* C6 as amended: exactly one envelope, an echo from "server" on the sender's
\* socket, whose payload is the frame with `from` replaced by the sender's
\* registry id and every other field as sent
C6_EchoStamped ==
    EchoFrame =>
        out = << Sent(ev.conn, SERVER, Absent, "echo",
                      [ev.frame EXCEPT !.from = Str(cid[ev.conn])]) >>

\* C6 witness: an echo of a frame whose `from` was not the sender's id
C6_Witness ==
    /\ EchoFrame
    /\ ev.frame.from # Str(cid[ev.conn])
    /\ Len(out) = 1 /\ out[1].env.type = Str("echo") /\ out[1].delivered

\* the frame of the next event is not JSON, not an object, or has no string type
Malformed(frame) ==
    \/ frame.k \in {"notjson", "scalar", "null", "array"}
    \/ frame.k = "object" /\ frame.type.k # "str"

\* C7: a malformed frame makes the router send exactly one envelope, an error
\* from "server" without `to`, on the socket the frame came from; no task is
\* started and the registry and the sockets are untouched.
C7_MalformedOneError ==
    [][ (ev'.kind = "message" /\ Malformed(ev'.frame)) =>
            /\ Len(out') = 1
            /\ out'[1].conn = ev'.conn
            /\ out'[1].env.type = Str("error")
            /\ out'[1].env.from = SERVER
            /\ out'[1].env.to = Absent
            /\ jobs' = jobs
            /\ clients' = clients /\ readyState' = readyState
      ]_vars

\* C7 witness: an object frame without a type, addressed to a connected client,
\* was answered by the error alone
C7_Witness ==
    /\ ev.kind = "message" /\ ev.frame.k = "object"
    /\ ev.frame.type.k # "str"
    /\ HasTo /\ TargetConnected
    /\ Len(out) = 1 /\ out[1].env.type = Str("error") /\ out[1].conn = ev.conn

\* C8: a registered connection never stays registered through two heartbeat
\* ticks in a row without a pong between them: at the second such tick it is
\* terminated (its socket is no longer open) and deleted from the registry,
\* whether or not the probe of the first tick could be sent.
C8_SilentEvictedInTwoTicks ==
    \A c \in Conns :
        /\ silentTicks[c] <= 2
        /\ silentTicks[c] = 2 =>
              (Holder(cid[c]) # c /\ readyState[c] = "closing")

\* C8 witness: a connection that was open met two ticks without answering and is
\* now terminated and unregistered
C8_Witness ==
    \E c \in Conns :
        /\ silentTicks[c] = 2
        /\ closeReason[c] = "terminate"
        /\ cid[c] \notin DOMAIN clients

\* C9: a heartbeat tick leaves alone every registered connection that has
\* answered since the previous tick (or shook hands since): it stays registered
\* and its socket keeps its state.
C9_AnsweringNeverEvicted ==
    [][ ev'.kind = "tick" =>
            \A id \in DOMAIN clients :
                silentTicks[clients[id]] = 0 =>
                    /\ id \in DOMAIN clients'
                    /\ clients'[id] = clients[id]
                    /\ readyState'[clients[id]] = readyState[clients[id]]
                    /\ closeReason'[clients[id]] = closeReason[clients[id]]
      ]_vars

\* C9 witness: the last event was a tick, and a connection that had answered the
\* probe of the tick before is still registered and open
C9_Witness ==
    /\ ev.kind = "tick"
    /\ \E c \in ev.answered :
          /\ silentTicks[c] = 1
          /\ Holder(cid[c]) = c /\ readyState[c] = "open"

\* the last event was a frame that dispatches a job: well-formed, no `to`, job tag
JobFrame ==
    /\ WellFormedFrame
    /\ ev.frame.to = Absent \/ ev.frame.to = Str(<<>>)
    /\ ev.frame.type.v = "tiktok:scrape"

\* the receiver's connection is registered and open
TvOpen == Holder(TV_ID) # NoConn /\ readyState[Holder(TV_ID)] = "open"

\* the handler of a job frame sent the ack with started:true on the requester's
\* socket, and nothing else
AckedFirst ==
    /\ Len(out) = 1
    /\ out[1].conn = ev.conn
    /\ out[1].env.type = Str("ack")
    /\ out[1].env.payload.started = TRUE

\* followers-result on the receiver's socket, then done with deliveredToTv:true
\* on the requester's socket
SettledDelivered ==
    /\ ev.outcome.ok
    /\ Len(out) = 2
    /\ out[1].conn = Holder(TV_ID) /\ out[1].delivered
    /\ out[1].env.type = Str("tiktok:followers")
    /\ out[2].conn = ev.job.ws
    /\ out[2].env.type = Str("tiktok:scrape:done")
    /\ out[2].env.payload.deliveredToTv = TRUE

\* done with deliveredToTv:false, then warn, both on the requester's socket
SettledUndelivered ==
    /\ ev.outcome.ok
    /\ Len(out) = 2
    /\ out[1].conn = ev.job.ws
    /\ out[1].env.type = Str("tiktok:scrape:done")
    /\ out[1].env.payload.deliveredToTv = FALSE
    /\ out[2].conn = ev.job.ws
    /\ out[2].env.type = Str("warn")

\* job-error on the requester's socket, then the error-tagged envelope on the
\* receiver's socket if the receiver is connected
SettledFailed ==
    /\ ~ev.outcome.ok
    /\ Len(out) >= 1
    /\ out[1].conn = ev.job.ws
    /\ out[1].env.type = Str("tiktok:scrape:error")
    /\ IF TvOpen
       THEN /\ Len(out) = 2
            /\ out[2].conn = Holder(TV_ID)
            /\ out[2].env.type = Str("tiktok:followers:error")
       ELSE Len(out) = 1

\* C10 as claimed: a job dispatched by a requester other than the receiver while
\* the receiver was connected is acked first and ends either delivered
\* (followers-result, done with true) or failed
C10_AsClaimed ==
    /\ JobFrame => AckedFirst
    /\ (ev.kind = "settle" /\ ev.job.tvAtStart /\ cid[ev.job.ws] # TV_ID) =>
          (SettledDelivered \/ SettledFailed)

\* C10 as amended, safety part: the ack is the only envelope of the dispatching
\* handler; when the operation settles the envelopes are those of a delivered
\* success if the receiver is connected then, those of an undelivered success
\* (done with false, warn) if it is not, or those of a failure
C10_Outcomes ==
    /\ JobFrame => AckedFirst
    /\ (ev.kind = "settle" /\ ev.job.tvAtStart /\ cid[ev.job.ws] # TV_ID) =>
          \/ TvOpen /\ SettledDelivered
          \/ ~TvOpen /\ SettledUndelivered
          \/ SettledFailed

\* C10 as amended: the above, and every task in flight settles in the end
C10_AckThenOutcome ==
    /\ []C10_Outcomes
    /\ \A job \in JobRecords :
          BagIn(job, jobs) ~> (ev.kind = "settle" /\ ev.job = job)

\* C10 witness: a job dispatched by one connection while the receiver was
\* connected has settled, the result went to the receiver and the requester
\* was told so
C10_Witness ==
    /\ ev.kind = "settle" /\ ev.job.tvAtStart
    /\ SettledDelivered
    /\ ev.job.ws # Holder(TV_ID)
    /\ readyState[ev.job.ws] = "open" /\ out[2].delivered

\* the positions in `out` of the envelopes with the given type tag
OutOfType(type) == {i \in 1..Len(out) : out[i].env.type = Str(type)}

\* C11: when a task's external operation succeeds, exactly one done envelope is
\* written on the requester's socket, and its deliveredToTv is true exactly when
\* a followers-result envelope left on the receiver's open socket in that same
\* step; with false, one warn follows on the requester's socket and nothing is
\* written to the receiver; with true, there is no warn.
C11_DoneReportsDelivery ==
    (ev.kind = "settle" /\ ev.outcome.ok) =>
        LET followersSent ==
                \E i \in OutOfType("tiktok:followers") :
                    out[i].conn = Holder(TV_ID) /\ out[i].delivered
        IN  /\ Cardinality(OutOfType("tiktok:scrape:done")) = 1
            /\ \A i \in OutOfType("tiktok:scrape:done") :
                  /\ out[i].conn = ev.job.ws
                  /\ out[i].env.payload.deliveredToTv = followersSent
            /\ \A i \in OutOfType("warn") : out[i].conn = ev.job.ws
            /\ IF followersSent
               THEN /\ Cardinality(OutOfType("tiktok:followers")) = 1
                    /\ OutOfType("warn") = {}
                    /\ Len(out) = 2
               ELSE /\ OutOfType("tiktok:followers") = {}
                    /\ Cardinality(OutOfType("warn")) = 1
                    /\ Len(out) = 2
                    /\ ~TvOpen

\* C11 witness: a task succeeded while the receiver's id was registered with a
\* socket that is no longer open: done says false and the warn reached the
\* requester
C11_Witness ==
    /\ ev.kind = "settle" /\ ev.outcome.ok
    /\ Holder(TV_ID) # NoConn /\ ~TvOpen
    /\ readyState[ev.job.ws] = "open"
    /\ Len(out) = 2
    /\ out[1].env.payload.deliveredToTv = FALSE
    /\ out[2].env.type = Str("warn") /\ out[2].delivered

\* a frame that is an object with the job-dispatch type and no destination
IsJobFrame(frame) ==
    /\ frame.k = "object"
    /\ frame.type = Str("tiktok:scrape")
    /\ frame.to \in {Absent, Str(<<>>)}

\* the username such a frame asks for, as the ack echoes it
AskedUsername(frame) ==
    IF frame.payload = Absent THEN DEFAULT_USERNAME
    ELSE trim(frame.payload.username.v)

\* C12: the step that handles a job-dispatch frame writes the ack (started:true,
\* the username asked for) on the requester's socket, and nothing else, and it is
\* that step which puts the external operation in flight, for that username;
\* an operation gets in flight in no other way.  The operation settles, and the
\* task writes its followers / done / warn / error envelopes, in a later step,
\* which writes no ack.
C12_AckBeforeOperation ==
    [][ /\ (ev'.kind = "message" /\ IsJobFrame(ev'.frame)) =>
              /\ out' = << [conn |-> ev'.conn,
                           env |-> [from |-> SERVER, to |-> Absent,
                                    type |-> Str("ack"),
                                    payload |-> [started |-> TRUE,
                                                 cmd |-> "tiktok:scrape",
                                                 username |-> AskedUsername(ev'.frame)]],
                           delivered |-> (readyState[ev'.conn] = "open")] >>
              /\ \E job \in JobRecords :
                    /\ job.ws = ev'.conn
                    /\ job.username = AskedUsername(ev'.frame)
                    /\ jobs' = jobs (+) SetToBag({job})
        /\ (\E job \in JobRecords : CopiesIn(job, jobs') > CopiesIn(job, jobs)) =>
              (ev'.kind = "message" /\ IsJobFrame(ev'.frame))
        /\ ev'.kind = "settle" =>
              /\ BagIn(ev'.job, jobs)
              /\ \A i \in 1..Len(out') : out'[i].env.type # Str("ack")
      ]_vars

\* C12 witness: a job-dispatch frame with a username has just been handled: the
\* ack with the trimmed username left on the requester's open socket and the
\* operation for that username is in flight, unsettled
C12_Witness ==
    /\ ev.kind = "message" /\ IsJobFrame(ev.frame)
    /\ ev.frame.payload # Absent
    /\ Len(out) = 1 /\ out[1].delivered
    /\ out[1].env.payload.username = <<"b">>
    /\ \E job \in BagToSet(jobs) : job.ws = ev.conn /\ job.username = <<"b">>

\* C13: when a task's external operation fails, the step writes one job-error
\* envelope {username, message} on the requester's socket, then, if the receiver
\* id is registered with an open socket, one error-tagged envelope with the same
\* username and message on the receiver's socket, and nothing else (no
\* followers-result, no done, no warn); the step takes that one task out of
\* flight and leaves the other tasks, the registry, the sockets and the liveness
\* flags as they were.
C13_FailureNotifiesBoth ==
    [][ (ev'.kind = "settle" /\ ~ev'.outcome.ok) =>
          LET job == ev'.job
              note == [username |-> job.username, message |-> ev'.outcome.message]
              tv == IF TV_ID \in DOMAIN clients THEN clients[TV_ID] ELSE NoConn
              toRequester ==
                  [conn |-> job.ws,
                   env |-> [from |-> SERVER, to |-> Absent,
                            type |-> Str("tiktok:scrape:error"), payload |-> note],
                   delivered |-> (readyState[job.ws] = "open")]
              toReceiver ==
                  [conn |-> tv,
                   env |-> [from |-> SERVER, to |-> Str(TV_ID),
                            type |-> Str("tiktok:followers:error"), payload |-> note],
                   delivered |-> TRUE]
          IN  /\ out' = IF tv # NoConn /\ readyState[tv] = "open"
                        THEN <<toRequester, toReceiver>>
                        ELSE <<toRequester>>
              /\ jobs' = jobs (-) SetToBag({job})
              /\ BagCardinality(jobs') = BagCardinality(jobs) - 1
              /\ UNCHANGED <<clients, readyState, closeReason, isAlive, cid>>
      ]_vars

\* C13 witness: a task asked for by a connection other than the receiver has
\* failed while another task was in flight; both error envelopes left, and the
\* other task is still in flight
C13_Witness ==
    /\ ev.kind = "settle" /\ ~ev.outcome.ok
    /\ TvOpen /\ Holder(TV_ID) # ev.job.ws
    /\ Len(out) = 2 /\ out[1].delivered /\ out[2].delivered
    /\ out[2].env.type = Str("tiktok:followers:error")
    /\ jobs # EmptyBag

\* the ?id= of a handshake is missing, or nothing is left of it once trimmed
BlankId(raw) == raw.k # "str" \/ \A i \in 1..Len(raw.v) : raw.v[i] = " "

\* C14: a handshake whose id is absent or blank is refused: its socket is closed
\* by the server with the policy-violation code, it gets no id and no registry
\* entry, and the registry, the other sockets and the liveness flags stay as
\* they were; and no key of the registry is ever the empty id or starts or ends
\* with a blank.
C14_BlankIdRefused ==
    [][ /\ (ev'.kind = "connection" /\ BlankId(ev'.raw)) =>
              /\ readyState'[ev'.conn] = "closing"
              /\ closeCode'[ev'.conn] = POLICY_VIOLATION
              /\ cid'[ev'.conn] = <<>>
              /\ clients' = clients
              /\ isAlive' = isAlive
              /\ \A c \in Conns \ {ev'.conn} :
                    /\ readyState'[c] = readyState[c]
                    /\ closeCode'[c] = closeCode[c]
                    /\ cid'[c] = cid[c]
        /\ \A id \in DOMAIN clients' :
              id # <<>> /\ id[1] # " " /\ id[Len(id)] # " "
      ]_vars

\* C14 witness: a handshake with a blank id has just been refused while another
\* connection was registered and open
C14_Witness ==
    /\ ev.kind = "connection" /\ ev.raw = Str(<<" ">>)
    /\ closeCode[ev.conn] = POLICY_VIOLATION
    /\ \E id \in DOMAIN clients : readyState[clients[id]] = "open"

\* a frame that is an object with a string type and a non-empty string `to`
IsAddressedFrame(frame) ==
    /\ frame.k = "object"
    /\ frame.type.k = "str"
    /\ frame.to.k = "str" /\ frame.to.v # <<>>

\* C15: handling a frame with a non-empty `to` puts no external operation in
\* flight, whatever its type, and writes either the forward followed by the
\* forward's ack {to, type}, or one error; never the job ack (started:true) nor
\* any envelope of a task.
C15_AddressedNeverJob ==
    [][ (ev'.kind = "message" /\ IsAddressedFrame(ev'.frame)) =>
          /\ jobs' = jobs
          /\ \/ /\ Len(out') = 2
                /\ out'[1].env.to = ev'.frame.to
                /\ out'[1].env.type = ev'.frame.type
                /\ out'[2].conn = ev'.conn
                /\ out'[2].env.type = Str("ack")
                /\ out'[2].env.payload = [to |-> ev'.frame.to, type |-> ev'.frame.type]
             \/ /\ Len(out') = 1
                /\ out'[1].conn = ev'.conn
                /\ out'[1].env.type = Str("error")
      ]_vars

\* C15 witness: a frame with the job-dispatch type addressed to the connected
\* receiver was forwarded to it, and no task is in flight
C15_Witness ==
    /\ ev.kind = "message" /\ IsAddressedFrame(ev.frame)
    /\ ev.frame.type = Str("tiktok:scrape")
    /\ TargetConnected
    /\ Len(out) = 2 /\ out[1].env.type = Str("tiktok:scrape") /\ out[1].delivered
    /\ jobs = EmptyBag

\* the `to` of the last frame, normalised the way the handshake normalises ids
NormalizedTo == toLowerCase(trim(ev.frame.to.v))

\* C16: a well-formed frame whose `to`, once trimmed and lower-cased, is the id
\* of a registered connection with an open socket is forwarded to that
\* connection.
C16_ToNormalized ==
    ( /\ WellFormedFrame /\ HasTo
      /\ Holder(NormalizedTo) # NoConn
      /\ readyState[Holder(NormalizedTo)] = "open" ) =>
        /\ Len(out) = 2
        /\ out[1].conn = Holder(NormalizedTo)
        /\ out[1].delivered
        /\ out[1].env.type = ev.frame.type

\* C17: a frame that is rejected (not JSON, no object, no string type, or a
\* non-empty `to` that is no registered id with an open socket) is answered by
\* one error envelope on the connection it came from; the step writes on no
\* other socket, puts no external operation in flight, and leaves the registry,
\* the sockets and the liveness flags as they were.
C17_RejectedOwnConnectionOnly ==
    [][ ( /\ ev'.kind = "message"
          /\ \/ Malformed(ev'.frame)
             \/ /\ IsAddressedFrame(ev'.frame)
                /\ ~( /\ ev'.frame.to.v \in DOMAIN clients
                      /\ readyState[clients[ev'.frame.to.v]] = "open" ) ) =>
          /\ Len(out') = 1
          /\ \A i \in 1..Len(out') :
                out'[i].conn = ev'.conn /\ out'[i].env.type = Str("error")
          /\ jobs' = jobs
          /\ clients' = clients
          /\ isAlive' = isAlive
          /\ readyState' = readyState
      ]_vars

\* C17 witness: a connection whose liveness flag a tick had cleared sent a frame
\* to an id that is not connected, while another connection was open; the one
\* error went back to the sender
C17_Witness ==
    /\ ev.kind = "message" /\ IsAddressedFrame(ev.frame)
    /\ ~TargetConnected
    /\ isAlive[ev.conn] = FALSE
    /\ \E c \in Conns \ {ev.conn} : readyState[c] = "open"
    /\ Len(out) = 1 /\ out[1].conn = ev.conn /\ out[1].delivered

\* C18, what a step may do: only a job-dispatch frame and a settlement change
\* the tasks in flight, so no close, eviction or replacement of the requester
\* takes a task away; and when a task settles whose requester's socket is not
\* open any more, the envelope for the receiver (followers-result on success,
\* error-tagged on failure) is still written on the receiver's socket if the
\* receiver is connected, the envelopes for the requester are dropped, and the
\* step changes nothing but the tasks in flight, which lose that one task.
C18_RequesterGoneStep ==
    /\ jobs' # jobs => ev'.kind \in {"message", "settle"}
    /\ (ev'.kind = "settle" /\ readyState[ev'.conn] # "open") =>
          LET job == ev'.job
              tv == IF TV_ID \in DOMAIN clients THEN clients[TV_ID] ELSE NoConn
              tag == IF ev'.outcome.ok THEN "tiktok:followers"
                                      ELSE "tiktok:followers:error"
          IN  /\ \A i \in 1..Len(out') :
                    out'[i].conn = job.ws => ~out'[i].delivered
              /\ (tv # NoConn /\ readyState[tv] = "open") =>
                    \E i \in 1..Len(out') :
                        /\ out'[i].conn = tv /\ out'[i].delivered
                        /\ out'[i].env.type = Str(tag)
                        /\ out'[i].env.payload.username = job.username
              /\ jobs' = jobs (-) SetToBag({job})
              /\ UNCHANGED <<nconn, cid, readyState, closeReason, clients, isAlive>>

\* C18: every step is as above, and a task in flight whose requester's socket is
\* not open any more still settles.
C18_NeverCancelled ==
    /\ [][C18_RequesterGoneStep]_vars
    /\ \A job \in JobRecords :
          (BagIn(job, jobs) /\ readyState[job.ws] # "open")
              ~> (ev.kind = "settle" /\ ev.job = job)

\* C18 witness: a task has succeeded after its requester's socket had closed; the
\* followers-result reached the receiver and the done for the requester was
\* dropped
C18_Witness ==
    /\ ev.kind = "settle" /\ ev.outcome.ok
    /\ readyState[ev.job.ws] = "closed"
    /\ TvOpen
    /\ Len(out) = 2
    /\ out[1].conn = Holder(TV_ID) /\ out[1].delivered
    /\ out[2].conn = ev.job.ws /\ ~out[2].delivered

\* C19, what a step may do: every job-dispatch frame puts one more external
\* operation in flight (for its own requester and username, also when the same
\* requester or another one already has an operation in flight for that
\* username), keeps every operation that was in flight, and is answered by its
\* own ack; every settlement takes exactly the settled task out of flight,
\* leaves the others, and writes only envelopes that carry the settled task's
\* username, on its requester's socket or on the receiver's.
C19_OneTaskPerFrameStep ==
    /\ (ev'.kind = "message" /\ IsJobFrame(ev'.frame)) =>
          /\ BagCardinality(jobs') = BagCardinality(jobs) + 1
          /\ \A job \in BagToSet(jobs) : CopiesIn(job, jobs') >= CopiesIn(job, jobs)
          /\ \E job \in JobRecords :
                /\ job.ws = ev'.conn
                /\ job.username = AskedUsername(ev'.frame)
                /\ CopiesIn(job, jobs') = CopiesIn(job, jobs) + 1
          /\ Len(out') = 1
          /\ out'[1].conn = ev'.conn
          /\ out'[1].env.type = Str("ack")
          /\ out'[1].env.payload.username = AskedUsername(ev'.frame)
    /\ ev'.kind = "settle" =>
          /\ BagCardinality(jobs') = BagCardinality(jobs) - 1
          /\ CopiesIn(ev'.job, jobs') = CopiesIn(ev'.job, jobs) - 1
          /\ \A job \in BagToSet(jobs) \ {ev'.job} :
                CopiesIn(job, jobs') = CopiesIn(job, jobs)
          /\ \A i \in 1..Len(out') :
                /\ out'[i].env.payload.username = ev'.job.username
                /\ \/ out'[i].conn = ev'.job.ws
                   \/ TV_ID \in DOMAIN clients /\ out'[i].conn = clients[TV_ID]

\* C19: every step is as above, and whichever tasks are in flight, each of them
\* can be the next to settle, with any outcome.
C19_JobsIndependent ==
    /\ [][C19_OneTaskPerFrameStep]_vars
    /\ [](\A job \in BagToSet(jobs), outcome \in Outcomes :
              ENABLED Settle(job, outcome))

\* C19 witness: of two operations in flight for the same requester and username,
\* one has failed and the other is still in flight
C19_Witness ==
    /\ ev.kind = "settle" /\ ~ev.outcome.ok
    /\ BagIn(ev.job, jobs)
    /\ Len(out) >= 1 /\ out[1].env.type = Str("tiktok:scrape:error")

\* the type tags of the envelopes a task writes when it settles
CompletionTags ==
    { Str("tiktok:followers"), Str("tiktok:scrape:done"), Str("warn"),
      Str("tiktok:scrape:error"), Str("tiktok:followers:error") }

\* C20, while an external operation is in flight: every frame that dispatches no
\* job can be handled at once, on the requester's connection and on any other
\* that can receive, and the heartbeat can tick whenever a connection is
\* registered.
C20_HandlersEnabled ==
    jobs # EmptyBag =>
        /\ \A ws \in Conns, frame \in Frames :
              (canReceive(ws) /\ ~IsJobFrame(frame)) => ENABLED OnMessage(ws, frame)
        /\ DOMAIN clients # {} => ENABLED Heartbeat

\* C20, the step that handles such a frame while an operation is in flight: it
\* writes the frame's own response (its last envelope is the ack, error or echo
\* on the sender's socket), writes no envelope of a task, and leaves the
\* operations in flight unsettled; a tick at such a time leaves them as well.
C20_AnsweredWhileInFlightStep ==
    /\ (jobs # EmptyBag /\ ev'.kind = "message" /\ ~IsJobFrame(ev'.frame)) =>
          /\ jobs' = jobs
          /\ Len(out') >= 1
          /\ out'[Len(out')].conn = ev'.conn
          /\ out'[Len(out')].env.type \in {Str("ack"), Str("error"), Str("echo")}
          /\ out'[Len(out')].env.from = SERVER
          /\ \A i \in 1..Len(out') :
                out'[i].env.type \in CompletionTags => ev'.frame.type = out'[i].env.type
    /\ (jobs # EmptyBag /\ ev'.kind = "tick") => jobs' = jobs

\* C20: both hold throughout.
C20_JobNeverBlocksRouting ==
    /\ []C20_HandlersEnabled
    /\ [][C20_AnsweredWhileInFlightStep]_vars

\* C20 witness: the connection that dispatched a job sent a later frame, which
\* was forwarded and acked while the job was still in flight
C20_Witness ==
    /\ ev.kind = "message" /\ IsAddressedFrame(ev.frame)
    /\ \E job \in BagToSet(jobs) : job.ws = ev.conn
    /\ Len(out) = 2 /\ out[1].delivered
    /\ out[2].env.type = Str("ack") /\ out[2].delivered

\* the type tags of a task's terminal notification to its requester
TerminalTags == { Str("tiktok:scrape:done"), Str("tiktok:scrape:error") }

\* the type tags of a task's envelope to the receiver
ReceiverTags == { Str("tiktok:followers"), Str("tiktok:followers:error") }

\* C21: the step in which a task settles writes exactly one terminal
\* notification, on the requester's socket: the done if the external operation
\* succeeded, the job-error if it failed; it writes at most one envelope to the
\* receiver, the followers-result on success or the error-tagged one on
\* failure; and it takes the task out of flight, so that the task writes nothing
\* afterwards.  No other step writes a server envelope with one of these tags.
C21_OneTerminalNotification ==
    [][ /\ ev'.kind = "settle" =>
              LET terminal == {i \in 1..Len(out') : out'[i].env.type \in TerminalTags}
                  receiver == {i \in 1..Len(out') : out'[i].env.type \in ReceiverTags}
              IN  /\ Cardinality(terminal) = 1
                  /\ \A i \in terminal :
                        /\ out'[i].conn = ev'.job.ws
                        /\ out'[i].env.type =
                              IF ev'.outcome.ok THEN Str("tiktok:scrape:done")
                                                ELSE Str("tiktok:scrape:error")
                  /\ Cardinality(receiver) <= 1
                  /\ \A i \in receiver :
                        out'[i].env.type =
                            IF ev'.outcome.ok THEN Str("tiktok:followers")
                                              ELSE Str("tiktok:followers:error")
                  /\ BagIn(ev'.job, jobs)
                  /\ CopiesIn(ev'.job, jobs') = CopiesIn(ev'.job, jobs) - 1
        /\ ev'.kind # "settle" =>
              \A i \in 1..Len(out') :
                  out'[i].env.from = SERVER =>
                      out'[i].env.type \notin TerminalTags \cup ReceiverTags
      ]_vars

\* C21 witness: a task asked for by the receiver's own connection has succeeded:
\* that one socket got the followers-result and then the done, and no task is
\* left in flight
C21_Witness ==
    /\ ev.kind = "settle" /\ ev.outcome.ok
    /\ TvOpen /\ ev.job.ws = Holder(TV_ID)
    /\ Len(out) = 2
    /\ out[1].conn = out[2].conn
    /\ out[1].delivered /\ out[2].delivered
    /\ jobs = EmptyBag

\* the type tags of the envelopes a task writes for its requester
RequesterTags ==
    { Str("ack"), Str("tiktok:scrape:done"), Str("warn"), Str("tiktok:scrape:error") }

\* C22: the ack of a job-dispatch frame is written on the socket the frame came
\* from; when the task settles, its done, warn and job-error envelopes are
\* written on that same socket, whoever holds the requester's id by then, and
\* its envelope for the receiver is written on the socket that holds the
\* receiver's id at that moment.
C22_RequesterByConnection ==
    [][ /\ (ev'.kind = "message" /\ IsJobFrame(ev'.frame)) =>
              \A i \in 1..Len(out') : out'[i].conn = ev'.conn
        /\ ev'.kind = "settle" =>
              \A i \in 1..Len(out') :
                  /\ out'[i].env.type \in RequesterTags =>
                        out'[i].conn = ev'.job.ws
                  /\ out'[i].env.type \in ReceiverTags =>
                        /\ TV_ID \in DOMAIN clients'
                        /\ out'[i].conn = clients'[TV_ID]
                        /\ out'[i].delivered
                  /\ out'[i].env.type \in RequesterTags \cup ReceiverTags
      ]_vars

\* C22 witness: the receiver's first connection dispatched a job and was then
\* replaced by a second connection under the same id; at completion the
\* followers-result went to the second connection, and the done was written on
\* the first one only, where it was dropped
C22_Witness ==
    /\ ev.kind = "settle" /\ ev.outcome.ok
    /\ cid[ev.job.ws] = TV_ID
    /\ Holder(TV_ID) \notin {NoConn, ev.job.ws}
    /\ Len(out) = 2
    /\ out[1].conn = Holder(TV_ID) /\ out[1].delivered
    /\ out[1].env.type = Str("tiktok:followers")
    /\ out[2].conn = ev.job.ws /\ ~out[2].delivered
    /\ out[2].env.type = Str("tiktok:scrape:done")

\* C23: a frame handled on a connection that is no longer the registry holder of
\* its id (it was superseded, or evicted by the heartbeat) is not forwarded under
\* that id (every envelope the step writes is the server's own) and puts no
\* external operation in flight.
C23_OnlyHolderActs ==
    [][ ( /\ ev'.kind = "message"
          /\ ~( /\ cid[ev'.conn] \in DOMAIN clients
                /\ clients[cid[ev'.conn]] = ev'.conn ) ) =>
          /\ \A i \in 1..Len(out') : out'[i].env.from = SERVER
          /\ jobs' = jobs
      ]_vars

===========================================================================
